---- MODULE Spec2Model ----
(***************************************************************************)
(* SparseMatrix<T> (src/SparseMatrix.h): a sorted doubly linked chain of   *)
(* nodes on a heap, owned by containers holding head, righe, colonne,     *)
(* size and the default value D.                                           *)
(*                                                                         *)
(* Two containers are modelled: "I", built by the three-argument           *)
(* constructor, and "J", built from "I" by the copy constructor or by the  *)
(* converting constructor, or apart from it by the three-argument          *)
(* constructor, and destroyed again at scope exit.                         *)
(* Element values are small naturals; the explicit conversion (T) of the   *)
(* converting constructor is any function f on them, injective or not.     *)
(* I has the shape of the driver's matrix, MaxRows rows and Colonne        *)
(* columns; a J constructed apart has up to MaxRows rows.                  *)
(***************************************************************************)
EXTENDS Integers, Sequences, FiniteSets

\* ---------------------------------------------------------------- bounds
MaxRows == 2
MaxVal == 1
MaxNodes == 3

\* SparseMatrix<int> I(3, 2, 999): the number of columns of the driver's matrix.
Colonne == 2

Null == 0
NodeIds == 1..MaxNodes
Vals == 0..MaxVal
MatIds == {"I", "J"}

\* heap: the node slots; mats: the containers; last: how the latest call ended;
\* added: for each container, the positions its add has stored so far (the
\* arguments of the calls of add that returned, the constructors' included).
\* cursor: the iterator the driver holds on I, with where it was taken.
\* origin: the constructor that gave J the nodes it began with.
VARIABLES heap, mats, added, last, cursor, origin

vars == <<heap, mats, added, last, cursor, origin>>

\* ------------------------------------------------------------ the heap
\* A released (or never allocated) node slot.
FreeNode == [live |-> FALSE, riga |-> 0, colonna |-> 0, dato |-> 0,
             next |-> Null, prev |-> Null, twice |-> FALSE]

\* node(k, r, c, n, p)
node(k, r, c, n, p) ==
    [live |-> TRUE, riga |-> r, colonna |-> c, dato |-> k, next |-> n, prev |-> p,
     twice |-> FALSE]

\* operator new: the lowest free slot, Null when the heap is exhausted.
NewNode(h) ==
    IF \E i \in DOMAIN h : ~h[i].live
    THEN CHOOSE i \in DOMAIN h : ~h[i].live /\ \A j \in DOMAIN h : ~h[j].live => i <= j
    ELSE Null

\* operator delete.  Releasing a slot that is not live is recorded in the
\* slot (twice) until the slot is allocated again.
DeleteNode(h, n) ==
    [h EXCEPT ![n] = IF h[n].live THEN FreeNode ELSE [FreeNode EXCEPT !.twice = TRUE]]

\* A container that is not (or no longer) constructed.
NoMatrix == [alive |-> FALSE, head |-> Null, righe |-> 0, colonne |-> 0,
             size |-> 0, D |-> 0]

\* SparseMatrix(r, c, d)
SparseMatrix(r, c, d) ==
    [alive |-> TRUE, head |-> Null, righe |-> r, colonne |-> c, size |-> 0, D |-> d]

\* Mutant of Before: the column is compared whatever the rows are.
Before_AnyRow(h, r, c, n) == r < h[n].riga \/ c < h[n].colonna

\* (r, c) sorts before node n:  r < n->e.riga || r == n->e.riga && c < n->e.colonna
Before(h, r, c, n) == r < h[n].riga \/ (r = h[n].riga /\ c < h[n].colonna)
\* r == n->e.riga && c == n->e.colonna
Same(h, r, c, n) == r = h[n].riga /\ c = h[n].colonna
\* r > n->e.riga || r == n->e.riga && c > n->e.colonna
After(h, r, c, n) == r > h[n].riga \/ (r = h[n].riga /\ c > h[n].colonna)

\* The result of one call: the heap and the container after it, how the call
\* ended ("ok", "bad_alloc", "abort") and, for add, the branch taken.
Result(h, m, out, branch) == [heap |-> h, mat |-> m, out |-> out, branch |-> branch]

\* Mutant of InsertHead: the splice forgets ++size.
InsertHead_NoCount(h, m, cur) ==
    LET h1 == [h EXCEPT ![cur].prev = Null, ![cur].next = m.head]
        h2 == [h1 EXCEPT ![m.head].prev = cur]
    IN [heap |-> h2, mat |-> [m EXCEPT !.head = cur], out |-> "ok", branch |-> "head"]

\* aggiungo in testa: the new node cur becomes the head.
InsertHead(h, m, cur) ==
    LET h1 == [h EXCEPT ![cur].prev = Null, ![cur].next = m.head]
        h2 == [h1 EXCEPT ![m.head].prev = cur]
    IN Result(h2, [m EXCEPT !.head = cur, !.size = m.size + 1], "ok", "head")

\* Mutant of InsertMiddle: the splice forgets ++size.
InsertMiddle_NoCount(h, m, cur, n) ==
    LET p  == h[n].prev
        h1 == [h EXCEPT ![cur].next = h[p].next, ![cur].prev = p]
        h2 == [h1 EXCEPT ![p].next = cur]
        h3 == [h2 EXCEPT ![n].prev = cur]
    IN [heap |-> h3, mat |-> m, out |-> "ok", branch |-> "middle"]

\* aggiungo in mezzo: cur goes between n->prev and n.
InsertMiddle(h, m, cur, n) ==
    LET p  == h[n].prev
        h1 == [h EXCEPT ![cur].next = h[p].next, ![cur].prev = p]
        h2 == [h1 EXCEPT ![p].next = cur]
        h3 == [h2 EXCEPT ![n].prev = cur]
    IN Result(h3, [m EXCEPT !.size = m.size + 1], "ok", "middle")

\* Mutant of Update: cur is released without its value being copied to n.
Update_NoCopy(h, m, cur, n) ==
    [heap |-> [h EXCEPT ![cur] = FreeNode], mat |-> m, out |-> "ok", branch |-> "update"]

\* Mutant of Update: cur is not released once its value is copied.
Update_Leak(h, m, cur, n) ==
    [heap |-> [h EXCEPT ![n].dato = h[cur].dato], mat |-> m, out |-> "ok",
     branch |-> "update"]

\* aggiorno valore: n takes the value of cur and cur is released.
Update(h, m, cur, n) ==
    LET h1 == [h EXCEPT ![n].dato = h[cur].dato]
    IN Result(DeleteNode(h1, cur), m, "ok", "update")

\* Mutant of InsertTail: the new node keeps the prev it was constructed with.
InsertTail_NoPrev(h, m, cur, n) ==
    LET h1 == [h EXCEPT ![cur].next = Null]
        h2 == [h1 EXCEPT ![n].next = cur]
    IN [heap |-> h2, mat |-> [m EXCEPT !.size = m.size + 1], out |-> "ok", branch |-> "tail"]

\* aggiungo in coda: cur goes after the last node n.
InsertTail(h, m, cur, n) ==
    LET h1 == [h EXCEPT ![cur].prev = n, ![cur].next = Null]
        h2 == [h1 EXCEPT ![n].next = cur]
    IN Result(h2, [m EXCEPT !.size = m.size + 1], "ok", "tail")

\* The while loop of add, from node n, with the new node cur already allocated.
\* A pass that takes none of the three branches repeats for ever in the code;
\* fuel ends the walk after as many passes as the heap has slots.
RECURSIVE AddWalk(_, _, _, _, _, _, _)
AddWalk(h, m, r, c, cur, n, fuel) ==
    IF n = Null \/ fuel = 0 THEN Result(h, m, "ok", "none")
    ELSE IF Before(h, r, c, n) THEN
        IF h[n].prev = Null THEN InsertHead(h, m, cur) ELSE InsertMiddle(h, m, cur, n)
    ELSE IF Same(h, r, c, n) THEN Update(h, m, cur, n)
    ELSE IF After(h, r, c, n) THEN
        IF h[n].next = Null THEN InsertTail(h, m, cur, n)
        ELSE AddWalk(h, m, r, c, cur, h[n].next, fuel - 1)
    ELSE Result(h, m, "ok", "none")

\* Mutant of AddPre: the assertion on the value is missing.
AddPre_NoValueCheck(m, r, c, value) ==
    /\ r <= m.righe /\ r > 0
    /\ c <= m.colonne /\ c > 0

\* The three assertions that open add.
AddPre(m, r, c, value) ==
    /\ r <= m.righe /\ r > 0
    /\ c <= m.colonne /\ c > 0
    /\ value # m.D

\* add once current is allocated: the empty chain, else the walk.
Link(h, m, r, c, current) ==
    IF m.head = Null
    THEN Result(h, [m EXCEPT !.head = current, !.size = m.size + 1], "ok", "empty")
    ELSE AddWalk(h, m, r, c, current, m.head, MaxNodes)

\* Mutant of add: size is already incremented when operator new throws.
add_CountFirst(h, m, r, c, value, allocOk) ==
    IF ~AddPre(m, r, c, value) THEN Result(h, m, "abort", "none")
    ELSE LET current == NewNode(h) IN
         IF current = Null \/ ~allocOk
         THEN Result(h, [m EXCEPT !.size = m.size + 1], "bad_alloc", "none")
         ELSE Link([h EXCEPT ![current] = node(value, r, c, Null, Null)],
                   m, r, c, current)

\* void add(r, c, value); allocOk = FALSE makes operator new throw.
add(h, m, r, c, value, allocOk) ==
    IF ~AddPre(m, r, c, value) THEN Result(h, m, "abort", "none")
    ELSE LET current == NewNode(h) IN
         IF current = Null \/ ~allocOk THEN Result(h, m, "bad_alloc", "none")
         ELSE Link([h EXCEPT ![current] = node(value, r, c, Null, Null)],
                   m, r, c, current)

\* Mutant of Match: only the row is compared.
Match_RowOnly(h, r, c, n) == h[n].riga = r

\* n->e.riga == r && n->e.colonna == c
Match(h, r, c, n) == h[n].riga = r /\ h[n].colonna = c

\* const T& operator()(r, c), for r and c in range.
RECURSIVE LookupWalk(_, _, _, _, _, _)
LookupWalk(h, m, r, c, n, fuel) ==
    IF n = Null \/ fuel = 0 THEN m.D
    ELSE IF Match(h, r, c, n) THEN h[n].dato
    ELSE IF h[n].next = Null THEN m.D
    ELSE LookupWalk(h, m, r, c, h[n].next, fuel - 1)

lookup(h, m, r, c) == LookupWalk(h, m, r, c, m.head, MaxNodes)

\* clear_helper calls itself once per node and once more for the null that
\* ends the chain: a frame per call, unless the build turns the trailing call
\* into a jump.  NoLimit is room that no chain of the heap exhausts, one call
\* further down included: a stack that deep, or the build with the jump.
NoLimit == MaxNodes + 2

\* The room the stack may have for calls of clear_helper where clear() is
\* called by a constructor or destructor that the driver calls: from none,
\* which faults on entry whatever the chain, to NoLimit.  A release one call
\* further down (in a constructor or destructor called by a member) has one
\* frame fewer.
Stacks == 0..NoLimit

\* throw; in a catch, and the resumption of the unwinding after a destructor
\* that ran while the exception passed, each run the unwinder, which needs
\* stack of its own, more than the throw of operator new did and more than
\* clear_helper needs for a chain of the heap.  A constructor call runs it
\* AllThrows times at most after its first clear().
AllThrows == 2

\* The stack room of a constructor call, <<frames, throws>>: room for frames
\* calls of clear_helper and for throws runs of the unwinder.  Either the
\* unwinder has all the room it needs and clear_helper any, or clear_helper
\* has all it needs and the unwinder any.
Rooms == (Stacks \X {AllThrows}) \cup ({NoLimit} \X (0..AllThrows))

\* clear_helper(n) with room for frames calls, this one included.  The call
\* for the null that ends the chain returns; a call for a node in the last
\* frame faults in its call of operator delete, before the node is released;
\* any other releases n and then calls itself for the successor.
RECURSIVE clear_helper(_, _, _)
clear_helper(h, n, frames) ==
    IF frames <= 0 THEN [heap |-> h, out |-> "fault"]
    ELSE IF n = Null THEN [heap |-> h, out |-> "ok"]
    ELSE IF frames = 1 THEN [heap |-> h, out |-> "fault"]
    ELSE LET tmp == h[n].next IN clear_helper(DeleteNode(h, n), tmp, frames - 1)

\* clear(): head and size are reset once clear_helper has returned.
clear(h, m, frames) ==
    LET res == clear_helper(h, m.head, frames) IN
    [heap |-> res.heap,
     mat |-> IF res.out = "ok" THEN [m EXCEPT !.head = Null, !.size = 0] ELSE m,
     out |-> res.out]

\* M.begin()
begin(m) == m.head
\* M.end()
end == Null
\* What operator++ makes of an iterator that equals end(): it reads n->next
\* through a null pointer, the behaviour is undefined, and the iterator has no
\* value a later step could read.
Overrun == Null - 1

\* iterator::operator++: n = n->next, with no test of n.
incr(h, n) == IF n \in DOMAIN h THEN h[n].next ELSE Overrun

\* Ib = M.begin() advanced j times.
RECURSIVE advance(_, _, _)
advance(h, n, j) == IF j = 0 THEN n ELSE advance(h, incr(h, n), j - 1)

\* Mutant of set_default: the new default is dropped.
set_default_Dropped(m, val) == m

\* void set_default(const T& val)
set_default(m, val) == [m EXCEPT !.D = val]

\* Mutant of Assign: the value is written to a copy of the element.
Assign_ToCopy(h, n, v) == h

\* (*Ib).dato = v: operator* returns a reference to the element of the node.
Assign(h, n, v) == [h EXCEPT ![n].dato = v]

\* The predicates of the model: p(v) is true exactly for the values of the set P.
Preds == SUBSET Vals

\* The loops of evaluate from cell (i, j) on, row after row, with the matches
\* counted so far.
RECURSIVE EvalLoop(_, _, _, _, _, _)
EvalLoop(h, m, P, i, j, counter) ==
    IF i > m.righe THEN counter
    ELSE IF j > m.colonne THEN EvalLoop(h, m, P, i + 1, 1, counter)
    ELSE EvalLoop(h, m, P, i, j + 1,
                  IF lookup(h, m, i, j) \in P THEN counter + 1 ELSE counter)

\* Mutant of evaluate: only the elements held in nodes are tested.
evaluate_StoredOnly(h, m, P) ==
    Cardinality({n \in NodeIds : h[n].live /\ h[n].dato \in P})

\* const int evaluate(SparseMatrix<T>& M, P& p)
evaluate(h, m, P) == EvalLoop(h, m, P, 1, 1, 0)

\* ~SparseMatrix()
Destructor(h, m, frames) == LET cl == clear(h, m, frames) IN [heap |-> cl.heap, out |-> cl.out]

\* (T)v: the explicit conversion f of the source type to the target type.
Cast(f, v) == f[v]
\* The conversions of the model: every function on the values.
Casts == [Vals -> Vals]

\* The result of a constructor: n is the number of nodes it allocated.
Built(h, m, out, n) == [heap |-> h, mat |-> m, out |-> out, n |-> n]

\* catch (...) { clear(); throw; }: a fault inside clear() ends the process
\* before the exception is thrown again; after clear() has returned, throw;
\* runs the unwinder, and without room for it the process faults with the
\* chain released and before any handler is reached.
CatchAll(h, m, n, frames, throws) ==
    LET cl == clear(h, m, frames) IN
    Built(cl.heap, cl.mat,
          IF cl.out # "ok" THEN cl.out ELSE IF throws < 1 THEN "fault" ELSE "bad_alloc", n)

\* The loop of the copy constructor from source node tmp; the i-th allocation
\* of the whole constructor call fails when i = failAt.
RECURSIVE CopyLoop(_, _, _, _, _, _, _, _)
CopyLoop(h, m, tmp, i, failAt, frames, throws, fuel) ==
    IF tmp = Null \/ fuel = 0 THEN Built(h, m, "ok", i - 1)
    ELSE LET res == add(h, m, h[tmp].riga, h[tmp].colonna, h[tmp].dato, i # failAt) IN
         IF res.out = "ok"
         THEN CopyLoop(res.heap, res.mat, res.heap[tmp].next, i + 1, failAt, frames, throws,
                       fuel - 1)
         ELSE IF res.out = "bad_alloc"
         THEN CatchAll(res.heap, res.mat, i - 1, frames, throws)
         ELSE Built(res.heap, res.mat, "abort", i - 1)

\* Mutant of CopyCtor: the memberwise copy, which takes over the head pointer.
CopyCtor_Memberwise(h, other, first, failAt, frames, throws) ==
    [heap |-> h, mat |-> other, out |-> "ok", n |-> first - 1]

\* SparseMatrix(const SparseMatrix& other)
CopyCtor(h, other, first, failAt, frames, throws) ==
    CopyLoop(h, SparseMatrix(other.righe, other.colonne, other.D), other.head,
             first, failAt, frames, throws, MaxNodes)

\* The loop of the converting constructor, Ib walking the chain of tmp.
RECURSIVE ConvLoop(_, _, _, _, _, _, _, _, _)
ConvLoop(h, m, f, Ib, i, failAt, frames, throws, fuel) ==
    IF Ib = Null \/ fuel = 0 THEN Built(h, m, "ok", i - 1)
    ELSE LET res == add(h, m, h[Ib].riga, h[Ib].colonna, Cast(f, h[Ib].dato), i # failAt) IN
         IF res.out = "ok"
         THEN ConvLoop(res.heap, res.mat, f, incr(res.heap, Ib), i + 1, failAt, frames, throws,
                       fuel - 1)
         ELSE IF res.out = "bad_alloc"
         THEN CatchAll(res.heap, res.mat, i - 1, frames, throws)
         ELSE Built(res.heap, res.mat, "abort", i - 1)

\* The end of the converting constructor, the loop having ended as l: an abort
\* or a fault ends the process with tmp still in place; otherwise tmp is
\* destroyed, on return or while the exception passes, and a fault in its
\* destructor ends the process with the rest of its chain allocated.  After
\* a destructor that ran while the exception passed, the unwinding is resumed,
\* and without room for that the process faults with both chains released.
ConvEnd(l, d, throws) ==
    IF l.out \in {"abort", "fault"} THEN l
    ELSE Built(d.heap, l.mat,
               IF d.out # "ok" THEN d.out
               ELSE IF l.out = "bad_alloc" /\ throws < AllThrows THEN "fault"
               ELSE l.out, l.n)

\* The converting constructor from line 218 on, tmp being the copy of other.
\* static_cast<T>((*Ib).dato) reads through an iterator that points at no
\* node: the behaviour is undefined, and a build either drops the unused read
\* (derefOk) or faults on it, which ends the process like an abort.  The
\* catch calls clear() itself; the destructor of tmp is a call of its own and
\* enters clear_helper one call further down.
ConvFrom(tmp, other, f, failAt, derefOk, frames, throws) ==
    IF tmp.out # "ok" THEN tmp
    ELSE IF ~derefOk
    THEN Built(tmp.heap, SparseMatrix(other.righe, other.colonne, other.D), "fault", tmp.n)
    ELSE LET l == ConvLoop(tmp.heap, SparseMatrix(other.righe, other.colonne, Cast(f, other.D)),
                           f, begin(tmp.mat), tmp.n + 1, failAt, frames, throws, MaxNodes)
         IN ConvEnd(l, Destructor(l.heap, tmp.mat, frames - 1), throws)

\* template <typename Q> SparseMatrix(const SparseMatrix<Q>& other).  The
\* copy constructor of tmp is called by this constructor: its catch enters
\* clear_helper one call further down than the catch of this one.
ConvCtor(h, other, f, failAt, derefOk, frames, throws) ==
    ConvFrom(CopyCtor(h, other, 1, failAt, frames - 1, throws), other, f, failAt, derefOk,
             frames, throws)

\* The data members operator= hands to std::swap, and those declared const.
SwappedMembers == {"head", "righe", "colonne", "D", "size"}

\* Mutant of ConstMembers: the dimensions are declared without const.
ConstMembers_None == {}

ConstMembers == {"righe", "colonne"}

\* The end of operator=: tmp holds the old members of *this and its
\* destructor has run as d.
AssignEnd(tmp, d) == Built(d.heap, tmp.mat, d.out, tmp.n)

\* operator= once tmp(other) is built: its failure leaves *this alone; else
\* the five swaps, after which tmp holds the old members of *this, and tmp's
\* destructor, called by operator=.
AssignFrom(tmp, this, frames) ==
    IF tmp.out # "ok" THEN Built(tmp.heap, this, tmp.out, tmp.n)
    ELSE AssignEnd(tmp, Destructor(tmp.heap, this, frames - 1))

\* SparseMatrix& operator=(const SparseMatrix& other).  std::swap of a const
\* member has no viable overload: every program that instantiates operator=
\* is ill-formed and yields no executable, whatever the operands.  Were the
\* members swappable, the body is: nothing for this == &other; else the copy
\* tmp(other) and what follows it.
operator_assign(h, this, other, self, failAt, frames, throws) ==
    IF SwappedMembers \cap ConstMembers # {} THEN Built(h, this, "ill_formed", 0)
    ELSE IF self THEN Built(h, this, "ok", 0)
    ELSE AssignFrom(CopyCtor(h, other, 1, failAt, frames - 1, throws), this, frames)

\* The cells begin(), ++ and != end() visit, in order.
RECURSIVE Visit(_, _, _)
Visit(h, Ib, fuel) ==
    IF Ib = end \/ fuel = 0 THEN <<>> ELSE <<Ib>> \o Visit(h, incr(h, Ib), fuel - 1)

Iterate(h, m) == Visit(h, begin(m), MaxNodes + 1)

\* The nodes reached from n by following next, in order.
RECURSIVE ChainFrom(_, _, _)
ChainFrom(h, n, fuel) ==
    IF n = Null \/ fuel = 0 THEN <<>> ELSE <<n>> \o ChainFrom(h, h[n].next, fuel - 1)

\* The chain of a container and the positions stored in it.
Chain(h, m) == ChainFrom(h, m.head, MaxNodes + 1)
ChainSet(h, m) == {Chain(h, m)[i] : i \in 1..Len(Chain(h, m))}
Pos(h, n) == <<h[n].riga, h[n].colonna>>
Stored(h, m) == {Pos(h, n) : n \in ChainSet(h, m)}

\* Mutant of Target: the iterator is a view that walks from the head again.
Target_LiveView(h, m, c) == advance(h, begin(m), c.j)

\* The node an iterator stands for in operator*, operator++ and the
\* comparisons: the pointer n it was constructed with.
Target(h, m, c) == c.n

\* No iterator taken yet.
NoCursor == [taken |-> FALSE, n |-> Null, j |-> 0, pos |-> <<0, 0>>, empty |-> FALSE]

\* ------------------------------------------------------------ the program
\* How the latest call ended: "ok", "bad_alloc" (thrown to the caller, who
\* goes on), "abort" (a failed assertion: the process is over), "fault" (a
\* read through a null iterator trapped: the process is over) or "ill_formed"
\* (the statement does not compile: there is no process), and for the last
\* four the call that raised it and the number n of nodes that call had
\* allocated.
Done(op, out, n) ==
    [out |-> out, by |-> IF out = "ok" THEN "none" ELSE op,
     n |-> IF out = "ok" THEN 0 ELSE n]

Running == last.out \notin {"abort", "fault", "ill_formed"}

\* There is no J, or J began with an empty chain.
NoOrigin == "none"

\* The constructor by has returned res: it is J's origin if it gave J nodes.
Origin(by, res) == IF res.out = "ok" /\ res.mat.size > 0 THEN by ELSE NoOrigin

Init ==
    /\ heap = [i \in NodeIds |-> FreeNode]
    /\ \E d \in Vals :
          mats = [x \in MatIds |->
                    IF x = "I" THEN SparseMatrix(MaxRows, Colonne, d) ELSE NoMatrix]
    /\ added = [x \in MatIds |-> {}]
    /\ last = Done("init", "ok", 0)
    /\ cursor = NoCursor
    /\ origin = NoOrigin

\* M.add(r, c, v)
Add(x, r, c, v, allocOk) ==
    /\ Running /\ mats[x].alive
    /\ UNCHANGED <<cursor, origin>>
    /\ \E res \in {add(heap, mats[x], r, c, v, allocOk)} :
         /\ heap' = res.heap
         /\ mats' = [mats EXCEPT ![x] = res.mat]
         /\ added' = [added EXCEPT ![x] = IF res.out = "ok" THEN @ \cup {<<r, c>>} ELSE @]
         /\ last' = Done("add", res.out, 0)

\* M.set_default(val)
SetDefault(x, val) ==
    /\ Running /\ mats[x].alive
    /\ UNCHANGED <<cursor, origin>>
    /\ mats' = [mats EXCEPT ![x] = set_default(mats[x], val)]
    /\ last' = Done("set_default", "ok", 0)
    /\ UNCHANGED <<heap, added>>

\* SparseMatrix<int> J(I);
Copy(failAt, frames, throws) ==
    /\ Running /\ mats["I"].alive /\ ~mats["J"].alive
    /\ UNCHANGED cursor
    /\ \E res \in {CopyCtor(heap, mats["I"], 1, failAt, frames, throws)} :
         /\ heap' = res.heap
         /\ origin' = Origin("copy", res)
         /\ mats' = [mats EXCEPT !["J"] = IF res.out = "ok" THEN res.mat ELSE NoMatrix]
         /\ added' = [added EXCEPT !["J"] =
                        IF res.out = "ok" THEN Stored(heap, mats["I"]) ELSE {}]
         /\ last' = Done("copy", res.out, res.n)

\* SparseMatrix<int> first(D);
Convert(f, failAt, derefOk, frames, throws) ==
    /\ Running /\ mats["I"].alive /\ ~mats["J"].alive
    /\ UNCHANGED cursor
    /\ \E res \in {ConvCtor(heap, mats["I"], f, failAt, derefOk, frames, throws)} :
         /\ heap' = res.heap
         /\ origin' = Origin("convert", res)
         /\ mats' = [mats EXCEPT !["J"] = IF res.out = "ok" THEN res.mat ELSE NoMatrix]
         /\ added' = [added EXCEPT !["J"] =
                        IF res.out = "ok" THEN Stored(heap, mats["I"]) ELSE {}]
         /\ last' = Done("convert", res.out, res.n)

\* J leaves scope, with room for frames calls of clear_helper.  A fault ends
\* the process with the rest of the chain still allocated; the lifetime of J
\* has ended either way.
Destroy(frames) ==
    /\ Running /\ mats["J"].alive
    /\ UNCHANGED cursor
    /\ origin' = NoOrigin
    /\ \E res \in {Destructor(heap, mats["J"], frames)} :
         /\ heap' = res.heap
         /\ last' = Done("destroy", res.out, 0)
    /\ mats' = [mats EXCEPT !["J"] = NoMatrix]
    /\ added' = [added EXCEPT !["J"] = {}]

\* Ib = M.begin(); ++Ib (j times); (*Ib).dato = v;  the driver goes on only
\* while Ib != M.end(), as in its loops: Ib is a node of the chain.
IterWrite(x, j, v) ==
    /\ Running /\ mats[x].alive
    /\ UNCHANGED <<cursor, origin>>
    /\ LET Ib == advance(heap, begin(mats[x]), j) IN
         /\ Ib \in DOMAIN heap
         /\ heap' = Assign(heap, Ib, v)
    /\ last' = Done("write", "ok", 0)
    /\ UNCHANGED <<mats, added>>

\* The arguments the driver passes to add: every cell of the matrix and one
\* position beyond each of its four edges.
Positions ==
    ((1..MaxRows) \X (1..Colonne))
        \cup {<<0, 1>>, <<MaxRows + 1, 1>>, <<1, 0>>, <<1, Colonne + 1>>}

\* The calls on one matrix.
Mutate(x) ==
    \/ \E p \in Positions, v \in Vals, allocOk \in BOOLEAN : Add(x, p[1], p[2], v, allocOk)
    \/ \E val \in Vals : SetDefault(x, val)
    \/ \E j \in 0..(MaxNodes - 1), v \in Vals : IterWrite(x, j, v)

\* The driver with the matrix I alone.
NextSingle == Mutate("I")

SpecSingle == Init /\ [][NextSingle]_vars

\* evaluate(M, p): the count is printed by the driver and kept in last.
Evaluate(x, P) ==
    /\ Running /\ mats[x].alive
    /\ UNCHANGED <<cursor, origin>>
    /\ last' = [out |-> "ok", by |-> "evaluate", n |-> evaluate(heap, mats[x], P)]
    /\ UNCHANGED <<heap, mats, added>>

\* The driver with the matrix I and predicates evaluated on it.
NextEval ==
    \/ Mutate("I")
    \/ \E P \in Preds : Evaluate("I", P)

SpecEval == Init /\ [][NextEval]_vars

\* SparseMatrix<int> J(r, c, d);  the assertions on r and c follow the
\* initialisation of the members.
Construct(r, c, d) ==
    /\ Running /\ ~mats["J"].alive
    /\ UNCHANGED cursor
    /\ origin' = NoOrigin
    /\ mats' = [mats EXCEPT !["J"] = IF r > 0 /\ c > 0 THEN SparseMatrix(r, c, d) ELSE NoMatrix]
    /\ last' = Done("construct", IF r > 0 /\ c > 0 THEN "ok" ELSE "abort", 0)
    /\ UNCHANGED <<heap, added>>

\* x = y;
CopyAssign(x, y, failAt, frames, throws) ==
    /\ Running /\ mats[x].alive /\ mats[y].alive
    /\ UNCHANGED cursor
    /\ \E res \in {operator_assign(heap, mats[x], mats[y], x = y, failAt, frames, throws)} :
         /\ heap' = res.heap
         /\ origin' = IF x = "J" /\ x # y /\ res.out = "ok" THEN Origin("assign", res) ELSE origin
         /\ mats' = [mats EXCEPT ![x] = res.mat]
         /\ added' = [added EXCEPT ![x] =
                        IF res.out = "ok" THEN Stored(heap, mats[y]) ELSE @]
         /\ last' = Done("assign", res.out, res.n)

\* The driver with I, a matrix J constructed apart or copied from I, and
\* assignments between the two.
NextAssign ==
    \/ \E x \in MatIds : Mutate(x)
    \/ \E r \in 0..MaxRows, d \in Vals : Construct(r, Colonne, d)
    \/ \E failAt \in 0..MaxNodes, room \in Rooms : Copy(failAt, room[1], room[2])
    \/ \E x, y \in MatIds, failAt \in 0..MaxNodes, room \in Rooms :
          CopyAssign(x, y, failAt, room[1], room[2])
    \/ \E frames \in Stacks : Destroy(frames)

SpecAssign == Init /\ [][NextAssign]_vars

\* Ib = I.begin(); ++Ib (j times), with no test against end() as in the
\* driver's ++If; If++.  Kept with the iterator: the position it showed when
\* taken and whether I was empty then.  An increment of an iterator that
\* equals end() is undefined: a build either traps on the read of n->next,
\* which ends the process, or drops the increments of an iterator nothing
\* reads afterwards, and the driver goes on with I as it was and without an
\* iterator it could use.
Capture(j, traps) ==
    /\ Running
    /\ LET n == advance(heap, begin(mats["I"]), j) IN
         IF n = Overrun
         THEN /\ cursor' = cursor
              /\ last' = Done("capture", IF traps THEN "fault" ELSE "ok", 0)
         ELSE /\ cursor' = [taken |-> TRUE, n |-> n, j |-> j,
                            pos |-> IF n = end THEN <<0, 0>> ELSE Pos(heap, n),
                            empty |-> begin(mats["I"]) = end]
              /\ last' = Done("capture", "ok", 0)
    /\ UNCHANGED <<heap, mats, added, origin>>

\* The driver with the matrix I and an iterator held across its calls.
NextCursor ==
    \/ Mutate("I")
    \/ \E j \in 0..(MaxNodes - 1), traps \in BOOLEAN : Capture(j, traps)

SpecCursor == Init /\ [][NextCursor]_vars

\* The driver with I and copies J of it.
NextCopy ==
    \/ \E x \in MatIds : Mutate(x)
    \/ \E failAt \in 0..MaxNodes, room \in Rooms : Copy(failAt, room[1], room[2])
    \/ \E frames \in Stacks : Destroy(frames)

SpecCopy == Init /\ [][NextCopy]_vars

\* The driver with I and a matrix J built from it by either constructor.
Next ==
    \/ \E x \in MatIds : Mutate(x)
    \/ \E failAt \in 0..MaxNodes, room \in Rooms : Copy(failAt, room[1], room[2])
    \/ \E f \in Casts, failAt \in 0..MaxNodes, derefOk \in BOOLEAN, room \in Rooms :
          Convert(f, failAt, derefOk, room[1], room[2])
    \/ \E frames \in Stacks : Destroy(frames)

Spec == Init /\ [][Next]_vars

\* The driver with every call: I, and a J constructed apart, copied or
\* converted from I, assigned to or from I, and destroyed.
NextAll ==
    \/ \E x \in MatIds : Mutate(x)
    \/ \E r \in 0..MaxRows, d \in Vals : Construct(r, Colonne, d)
    \/ \E failAt \in 0..MaxNodes, room \in Rooms : Copy(failAt, room[1], room[2])
    \/ \E f \in Casts, failAt \in 0..MaxNodes, derefOk \in BOOLEAN, room \in Rooms :
          Convert(f, failAt, derefOk, room[1], room[2])
    \/ \E x, y \in MatIds, failAt \in 0..MaxNodes, room \in Rooms :
          CopyAssign(x, y, failAt, room[1], room[2])
    \/ \E frames \in Stacks : Destroy(frames)

SpecAll == Init /\ [][NextAll]_vars

\* The converting constructor holds two chains besides the source's: tmp, the
\* copy of the source, and its own.  ConvNodes slots leave room for both next
\* to a source of fewer than MaxNodes nodes, and ConvAllocs is the number of
\* allocations the conversion of such a source makes.
ConvNodes == 2 * MaxNodes
ConvAllocs == 2 * (MaxNodes - 1)

InitConv ==
    /\ heap = [i \in 1..ConvNodes |-> FreeNode]
    /\ \E d \in Vals :
          mats = [x \in MatIds |->
                    IF x = "I" THEN SparseMatrix(MaxRows, Colonne, d) ELSE NoMatrix]
    /\ added = [x \in MatIds |-> {}]
    /\ last = Done("init", "ok", 0)
    /\ cursor = NoCursor
    /\ origin = NoOrigin

\* The driver with every call on a heap of ConvNodes slots.  The calls of
\* add, set_default and the iterator writes keep I to fewer than MaxNodes
\* nodes and the two matrices to MaxNodes nodes together; a constructor may
\* give J as many nodes as I has.
NextConv ==
    \/ /\ \E x \in MatIds : Mutate(x)
       /\ mats'["I"].size < MaxNodes
       /\ mats'["I"].size + mats'["J"].size <= MaxNodes
    \/ \E r \in 0..MaxRows, d \in Vals : Construct(r, Colonne, d)
    \/ \E failAt \in 0..MaxNodes, room \in Rooms : Copy(failAt, room[1], room[2])
    \/ \E f \in Casts, failAt \in 0..ConvAllocs, derefOk \in BOOLEAN, room \in Rooms :
          Convert(f, failAt, derefOk, room[1], room[2])
    \/ \E x, y \in MatIds, failAt \in 0..MaxNodes, room \in Rooms :
          CopyAssign(x, y, failAt, room[1], room[2])
    \/ \E frames \in Stacks : Destroy(frames)

SpecConv == InitConv /\ [][NextConv]_vars

\* ------------------------------------------------------------ properties
\* The in-range positions of a container, and lexicographic order on positions.
Cells(m) == (1..m.righe) \X (1..m.colonne)
PosLess(p, q) == p[1] < q[1] \/ (p[1] = q[1] /\ p[2] < q[2])
Live(x) == mats[x].alive

\* C1: an add(r, c, v) with r and c in range and v different from the default,
\* that returns, makes lookup(r, c) = v, leaves lookup unchanged everywhere
\* else, and grows size by one exactly when (r, c) was not stored before.
C1_AddStoresValue ==
    [][\A x \in MatIds : \A p \in Cells(mats[x]), v \in Vals :
         (Live(x) /\ v # mats[x].D /\ last'.out = "ok" /\ Add(x, p[1], p[2], v, TRUE))
         => /\ lookup(heap', mats'[x], p[1], p[2]) = v
            /\ \A q \in Cells(mats[x]) \ {p} :
                 lookup(heap', mats'[x], q[1], q[2]) = lookup(heap, mats[x], q[1], q[2])
            /\ mats'[x].size =
                 mats[x].size + (IF p \in Stored(heap, mats[x]) THEN 0 ELSE 1)]_vars

\* I holds as many cells as the heap has slots, every one put there by add and
\* read back by lookup as a value that is not the default.
C1_Witness ==
    /\ mats["I"].size = MaxNodes
    /\ Cardinality(added["I"]) = MaxNodes
    /\ \A p \in added["I"] : lookup(heap, mats["I"], p[1], p[2]) # mats["I"].D

\* C2: the chain walked from head via next is strictly ascending in (row,
\* column) order, so no two of its nodes share a position.
C2_ChainAscending ==
    \A x \in MatIds :
        LET ch == Chain(heap, mats[x]) IN
        \A i \in 1..(Len(ch) - 1) : PosLess(Pos(heap, ch[i]), Pos(heap, ch[i + 1]))

\* A chain of three nodes allocated last to first: the second and the third
\* add each spliced its node in at the head.
C2_Witness ==
    LET ch == Chain(heap, mats["I"]) IN
    /\ Len(ch) = 3
    /\ ch[1] > ch[2] /\ ch[3] < ch[2]

\* C3: lookup at an in-range position that add never stored returns the
\* container's current default, also after set_default has changed it.
C3_UnstoredIsDefault ==
    \A x \in MatIds :
        Live(x) => \A p \in Cells(mats[x]) \ added[x] :
                       lookup(heap, mats[x], p[1], p[2]) = mats[x].D

\* I has stored and unstored cells, and a stored cell holds the very value that
\* is now the default: the default was changed after that cell was stored.
C3_Witness ==
    /\ mats["I"].size >= 2
    /\ Cells(mats["I"]) \ added["I"] # {}
    /\ \E n \in ChainSet(heap, mats["I"]) :
         /\ heap[n].dato = mats["I"].D
         /\ \E q \in Cells(mats["I"]) \ added["I"] : q[1] = heap[n].riga

\* C7: advancing a cursor from begin() until it equals end() visits the cells
\* in strictly ascending (row, column) order and takes exactly size() advances;
\* begin() = end() exactly when the container is empty.
C7_IterationAscending ==
    \A x \in MatIds :
        Live(x) =>
            LET w == Iterate(heap, mats[x]) IN
            /\ Len(w) = mats[x].size
            /\ \A i \in 1..(Len(w) - 1) : PosLess(Pos(heap, w[i]), Pos(heap, w[i + 1]))
            /\ (begin(mats[x]) = end) <=> (mats[x].size = 0)

\* A cursor on I that is not at end() after two advances and is at end() after
\* the third, the second visited cell having been spliced in the middle.
C7_Witness ==
    /\ advance(heap, begin(mats["I"]), 2) # end
    /\ advance(heap, begin(mats["I"]), 3) = end
    /\ advance(heap, begin(mats["I"]), 1) > advance(heap, begin(mats["I"]), 2)
    /\ advance(heap, begin(mats["I"]), 1) > begin(mats["I"])

\* C8: when the allocation inside add fails, the failure reaches the caller and
\* the heap (nodes, links, values) and the container (head, size, default) are
\* as before the call, for a new position and for a stored one alike.
C8_AddFailureLeavesState ==
    [][/\ \A x \in MatIds : \A p \in Cells(mats[x]), v \in Vals :
            (Live(x) /\ v # mats[x].D /\ Add(x, p[1], p[2], v, FALSE))
            => last' = Done("add", "bad_alloc", 0)
       /\ (last'.out = "bad_alloc" /\ last'.by = "add")
            => (heap' = heap /\ mats' = mats)]_vars

\* An add on I has just failed to allocate while I holds a stored cell and has
\* an unstored one.
C8_Witness ==
    /\ last = Done("add", "bad_alloc", 0)
    /\ mats["I"].size >= 1
    /\ Cells(mats["I"]) \ Stored(heap, mats["I"]) # {}

\* C10: add with r or c out of range, or with v equal to the current default,
\* aborts without allocating and without changing the chain, size or default;
\* so every node is created with a value that differs from the default of its
\* container at that moment.
C10_AddPreconditionAborts ==
    [][/\ \A x \in MatIds, p \in Positions, v \in Vals, ok \in BOOLEAN :
            (/\ Live(x)
             /\ (p[1] \notin 1..mats[x].righe \/ p[2] \notin 1..mats[x].colonne
                    \/ v = mats[x].D)
             /\ Add(x, p[1], p[2], v, ok))
            => (last' = Done("add", "abort", 0) /\ heap' = heap /\ mats' = mats)
       /\ \A n \in NodeIds :
            (~heap[n].live /\ heap'[n].live)
            => \E x \in MatIds :
                 /\ Live(x) /\ n \in ChainSet(heap', mats'[x])
                 /\ heap'[n].dato # mats'[x].D]_vars

\* An add on I has just aborted while I holds cells.
C10_Witness ==
    /\ last = Done("add", "abort", 0)
    /\ mats["I"].size >= 1

\* What a caller can observe of a container: size(), the default and lookup at
\* every in-range position.
View(h, m) ==
    [size |-> m.size, D |-> m.D,
     cells |-> [p \in Cells(m) |-> lookup(h, m, p[1], p[2])]]

Other(x) == IF x = "I" THEN "J" ELSE "I"

\* C4: copy-construction from any reachable source completes (unless an
\* allocation fails, which ends it in bad_alloc or in a fault of the release
\* or of the unwinder)
\* and yields a container with the size, the default and every lookup result
\* of the source.
C4_CopyEqualsSource ==
    [][((\E failAt \in 0..MaxNodes, room \in Rooms : Copy(failAt, room[1], room[2]))
            /\ last'.out \notin {"bad_alloc", "fault"})
         => /\ mats'["J"].alive
            /\ View(heap', mats'["J"]) = View(heap', mats'["I"])]_vars

\* C5: a container and its copy share no node: add, set_default and iterator
\* writes on either leave the size, the default, every lookup result and the
\* chain of the other unchanged.
C5_CopyIsIndependent ==
    [][/\ ChainSet(heap', mats'["I"]) \cap ChainSet(heap', mats'["J"]) = {}
       /\ \A x \in MatIds :
            (Live("I") /\ Live("J") /\ Mutate(x))
            => /\ View(heap', mats'[Other(x)]) = View(heap, mats[Other(x)])
               /\ Chain(heap', mats'[Other(x)]) = Chain(heap, mats[Other(x)])
               /\ \A n \in ChainSet(heap, mats[Other(x)]) : heap'[n] = heap[n]]_vars

\* J began as a copy of the nodes of I and the two have since been changed
\* apart: they differ in the value at a position both store and in the
\* default, and I stores a position J does not.
C5_Witness ==
    /\ Live("J") /\ origin = "copy"
    /\ \E p \in Stored(heap, mats["I"]) \cap Stored(heap, mats["J"]) :
          lookup(heap, mats["I"], p[1], p[2]) # lookup(heap, mats["J"], p[1], p[2])
    /\ Stored(heap, mats["I"]) \ Stored(heap, mats["J"]) # {}
    /\ mats["I"].D # mats["J"].D

\* C6: conversion by any f, in a build that drops the unused read of line 218
\* and releases the temporary in a loop, completes (unless an allocation
\* fails) and yields a container that stores exactly the positions of the
\* source, f of the source value at each, and f of the source default as
\* default.
C6_ConversionKeepsPattern ==
    [][\A f \in Casts :
         ((\E failAt \in 0..ConvAllocs : Convert(f, failAt, TRUE, NoLimit, AllThrows))
             /\ last'.out # "bad_alloc")
         => /\ mats'["J"].alive
            /\ Stored(heap', mats'["J"]) = Stored(heap, mats["I"])
            /\ \A p \in Stored(heap, mats["I"]) :
                 lookup(heap', mats'["J"], p[1], p[2])
                    = f[lookup(heap, mats["I"], p[1], p[2])]
            /\ mats'["J"].D = f[mats["I"].D]]_vars

\* C9: when an allocation fails during copy-construction or conversion, the
\* failure is signalled again after the nodes created so far (the temporary's
\* included) have each been released once: the target is left with head empty
\* and size 0, no live node is outside a chain, and the source is unchanged.
\* An allocation fails in a call exactly when the call ends in bad_alloc with
\* unlimited room for the release.  The stack has room for the unwinder, and
\* any room for clear_helper.
C9_FailedCopyRollsBack ==
    [][\A k \in 0..ConvAllocs, frames \in Stacks :
         /\ (Copy(k, frames, AllThrows) /\ CopyCtor(heap, mats["I"], 1, k, NoLimit, AllThrows).out = "bad_alloc")
               => /\ last'.out = "bad_alloc"
                  /\ CopyCtor(heap, mats["I"], 1, k, frames, AllThrows).mat.head = Null
                  /\ CopyCtor(heap, mats["I"], 1, k, frames, AllThrows).mat.size = 0
                  /\ \A n \in DOMAIN heap : heap'[n].live <=> heap[n].live
                  /\ \A n \in DOMAIN heap : ~heap'[n].twice
                  /\ {n \in DOMAIN heap : heap'[n].live} = ChainSet(heap', mats'["I"])
                  /\ mats' = mats
                  /\ \A n \in ChainSet(heap, mats["I"]) : heap'[n] = heap[n]
         /\ \A f \in Casts :
              (/\ Convert(f, k, TRUE, frames, AllThrows)
               /\ ConvCtor(heap, mats["I"], f, k, TRUE, NoLimit, AllThrows).out = "bad_alloc")
               => /\ last'.out = "bad_alloc"
                  /\ ConvCtor(heap, mats["I"], f, k, TRUE, frames, AllThrows).mat.head = Null
                  /\ ConvCtor(heap, mats["I"], f, k, TRUE, frames, AllThrows).mat.size = 0
                  /\ \A n \in DOMAIN heap : heap'[n].live <=> heap[n].live
                  /\ \A n \in DOMAIN heap : ~heap'[n].twice
                  /\ {n \in DOMAIN heap : heap'[n].live} = ChainSet(heap', mats'["I"])
                  /\ mats' = mats
                  /\ \A n \in ChainSet(heap, mats["I"]) : heap'[n] = heap[n]]_vars

\* C11: set_default(d) changes the default alone: the heap, the chain, the
\* stored positions, size and dimensions stay, every stored position keeps
\* its value (also one equal to d) and every unstored position reads d.
C11_SetDefaultOnlyDefault ==
    [][\A x \in MatIds, d \in Vals :
         SetDefault(x, d)
         => /\ heap' = heap
            /\ mats'[x] = [mats[x] EXCEPT !.D = d]
            /\ Chain(heap', mats'[x]) = Chain(heap, mats[x])
            /\ Stored(heap', mats'[x]) = Stored(heap, mats[x])
            /\ \A p \in Stored(heap, mats[x]) \cap Cells(mats[x]) :
                 lookup(heap', mats'[x], p[1], p[2]) = lookup(heap, mats[x], p[1], p[2])
            /\ \A p \in Cells(mats[x]) \ Stored(heap, mats[x]) :
                 lookup(heap', mats'[x], p[1], p[2]) = d]_vars

\* I stores a cell whose value is the default, next to a cell whose value is
\* not and an unstored position.
C11_Witness ==
    /\ \E n \in ChainSet(heap, mats["I"]) : heap[n].dato = mats["I"].D
    /\ \E n \in ChainSet(heap, mats["I"]) : heap[n].dato # mats["I"].D
    /\ Cells(mats["I"]) \ Stored(heap, mats["I"]) # {}

\* C12: a write of v through an iterator at the stored cell (r, c) makes
\* lookup(r, c) = v and leaves the node's row and column, the chain, the
\* stored positions, size, the default and every other stored value unchanged.
C12_IteratorWriteInPlace ==
    [][\A x \in MatIds, j \in 0..(MaxNodes - 1), v \in Vals :
         IterWrite(x, j, v)
         => LET Ib == advance(heap, begin(mats[x]), j) IN
            /\ lookup(heap', mats'[x], heap[Ib].riga, heap[Ib].colonna) = v
            /\ Pos(heap', Ib) = Pos(heap, Ib)
            /\ Chain(heap', mats'[x]) = Chain(heap, mats[x])
            /\ Stored(heap', mats'[x]) = Stored(heap, mats[x])
            /\ mats' = mats
            /\ \A n \in NodeIds \ {Ib} : heap'[n] = heap[n]]_vars

\* I holds two cells, the second with the value of the default and the first
\* with another: a write through the iterator advanced once leaves this.
C12_Witness ==
    /\ mats["I"].size = 2
    /\ heap[mats["I"].head].dato # mats["I"].D
    /\ heap[incr(heap, mats["I"].head)].dato = mats["I"].D

\* C13: evaluate(M, p) returns the number of positions of [1, rows] x
\* [1, columns] whose lookup satisfies p, unstored positions counted through
\* the default; it returns rows x columns for the predicate that is always
\* true, and it leaves the matrix unchanged.
C13_EvaluateCountsCells ==
    [][\A P \in Preds :
         Evaluate("I", P)
         => /\ last'.n = Cardinality({p \in Cells(mats["I"]) :
                                        lookup(heap, mats["I"], p[1], p[2]) \in P})
            /\ (P = Vals => last'.n = mats["I"].righe * mats["I"].colonne)
            /\ heap' = heap /\ mats' = mats]_vars

\* evaluate has just counted, on an I that stores a cell, some positions that
\* are unstored and not all positions.
C13_Witness ==
    /\ last.by = "evaluate"
    /\ mats["I"].size = 1
    /\ last.n > 1
    /\ last.n < mats["I"].righe * mats["I"].colonne

\* C14: an assignment x = y either fails in the copy of y and leaves x, its
\* chain and the heap as they were, or succeeds: x then has the size, the
\* default and the lookup results of y, y and its nodes are unchanged, and
\* every node of x's previous chain has been released, none of them twice.
C14_AssignAllOrNothing ==
    [][\A x \in MatIds, failAt \in 0..MaxNodes, room \in Rooms :
         CopyAssign(x, Other(x), failAt, room[1], room[2])
         => \/ /\ last'.out = "bad_alloc"
               /\ mats' = mats
               /\ \A n \in NodeIds : heap'[n].live <=> heap[n].live
               /\ \A n \in ChainSet(heap, mats[x]) : heap'[n] = heap[n]
            \/ /\ last'.out = "ok"
               /\ View(heap', mats'[x]) = View(heap, mats[Other(x)])
               /\ mats'[Other(x)] = mats[Other(x)]
               /\ \A n \in ChainSet(heap, mats[Other(x)]) : heap'[n] = heap[n]
               /\ \A n \in ChainSet(heap, mats[x]) :
                    n \notin ChainSet(heap', mats'[x]) /\ ~heap'[n].twice
               /\ {n \in NodeIds : heap'[n].live}
                    = ChainSet(heap', mats'["I"]) \cup ChainSet(heap', mats'["J"])]_vars

C16_SizeIsChainLength ==
    \A x \in MatIds : Live(x) => mats[x].size = Len(Chain(heap, mats[x]))

\* A conversion of I, which holds two nodes, has just failed in its fourth
\* allocation: its catch has cleared a chain of one node and the temporary
\* has been destroyed with two.
C16_Witness ==
    /\ last = Done("convert", "bad_alloc", 3)
    /\ mats["I"].size = 2
    /\ Cardinality({n \in DOMAIN heap : heap[n].live}) = 2

\* C17: destroying a container releases every node of its chain, none of them
\* twice and no other node, runs to its end, and clear() leaves head empty
\* and size 0.
C17_DestroyReleasesChain ==
    [][\A frames \in Stacks :
         Destroy(frames)
         => /\ last'.out = "ok"
            /\ \A n \in ChainSet(heap, mats["J"]) : ~heap'[n].live /\ ~heap'[n].twice
            /\ \A n \in NodeIds \ ChainSet(heap, mats["J"]) : heap'[n] = heap[n]
            /\ clear(heap, mats["J"], frames).mat.head = Null
            /\ clear(heap, mats["J"], frames).mat.size = 0]_vars

\* C18: in every reachable state the head of a chain has no prev, and the
\* prev of the successor of every node of the chain is that node.
C18_PrevMirrorsNext ==
    \A x \in MatIds :
        Live(x) =>
            /\ (mats[x].head # Null => heap[mats[x].head].prev = Null)
            /\ \A n \in ChainSet(heap, mats[x]) :
                 heap[n].next # Null => heap[heap[n].next].prev = n

\* I holds as many nodes as the heap has slots and the node of the highest
\* slot has a predecessor and a successor: a splice through n->prev put it
\* between them.
C18_Witness ==
    /\ ~Live("J")
    /\ mats["I"].size = MaxNodes
    /\ mats["I"].head # MaxNodes
    /\ heap[MaxNodes].next # Null
    /\ heap[MaxNodes].prev # Null

\* C19: an add that returns has left the loop through one of its branches
\* within one pass per node of the chain, and the live nodes are then exactly
\* the nodes of the chain: the node it allocated is in the chain, or, when
\* the position was stored already, it is released (once) and the node of the
\* position holds its value.
C19_AddLinksOrReleases ==
    [][\A p \in Positions, v \in Vals :
         LET res == add(heap, mats["I"], p[1], p[2], v, TRUE)
             cur == NewNode(heap)
         IN (Add("I", p[1], p[2], v, TRUE) /\ res.out = "ok")
            => /\ res.branch \in {"empty", "head", "middle", "tail", "update"}
               /\ {n \in NodeIds : heap'[n].live} = ChainSet(heap', mats'["I"])
               /\ Len(Chain(heap', mats'["I"])) <= MaxNodes
               /\ \A n \in NodeIds : ~heap'[n].twice
               /\ IF p \in Stored(heap, mats["I"])
                  THEN /\ res.branch = "update"
                       /\ ~heap'[cur].live
                       /\ ChainSet(heap', mats'["I"]) = ChainSet(heap, mats["I"])
                       /\ \E n \in ChainSet(heap, mats["I"]) :
                            Pos(heap, n) = p /\ heap'[n].dato = v
                  ELSE /\ res.branch # "update"
                       /\ ChainSet(heap', mats'["I"]) = ChainSet(heap, mats["I"]) \cup {cur}
                       /\ Pos(heap', cur) = p /\ heap'[cur].dato = v]_vars

\* I holds two nodes of equal value, linked in the slots the first two adds
\* took, and the slot an add on a stored position borrows is free.
C19_Witness ==
    /\ mats["I"].size = 2
    /\ ChainSet(heap, mats["I"]) = {1, 2}
    /\ ~heap[MaxNodes].live
    /\ heap[mats["I"].head].dato = heap[incr(heap, mats["I"].head)].dato

\* C20: an iterator that is not end stands, after any later add, set_default
\* or iterator write on its container, for a live node of the chain at the
\* row and column it showed when taken; an iterator taken from begin() of the
\* empty container equals end() whatever is added later.
C20_CursorIsFixedNode ==
    cursor.taken =>
        LET n == Target(heap, mats["I"], cursor) IN
        /\ cursor.n # end =>
              /\ n \in NodeIds /\ heap[n].live
              /\ n \in ChainSet(heap, mats["I"])
              /\ Pos(heap, n) = cursor.pos
        /\ cursor.empty => n = end

\* The iterator taken at the first node of I is held while I has grown to
\* fill the heap, and its node is no longer the first.
C20_Witness ==
    /\ cursor.taken /\ cursor.j = 0 /\ cursor.n # end
    /\ mats["I"].head # cursor.n
    /\ mats["I"].size = MaxNodes

====
